---- MODULE Spec2Model ----
(***************************************************************************)
(* Model of src/io/iologindata.cpp (IOLoginData): the save transaction     *)
(* (savePlayer / savePlayerGuard), the load pipeline (loadPlayer and its   *)
(* two lookup entry points) and the online status tracker                  *)
(* (updateOnlineStatus).                                                   *)
(*                                                                         *)
(* Every public call runs synchronously to completion, so each call is one *)
(* action.  What a call did (the steps it invoked, what it returned, the   *)
(* state it started from) is kept in history variables so that properties  *)
(* of a single call can be stated over states.                             *)
(***************************************************************************)
EXTENDS Integers, Sequences, FiniteSets, TLC

(***************************************************************************)
(* Bounds of the model.                                                    *)
(***************************************************************************)
\* player aggregates are told apart by a content version 1..MaxVersion
MaxVersion == 2
\* identities handed to updateOnlineStatus are 0..MaxGuid (0 is invalid)
MaxGuid == 2
\* number of updateOnlineStatus calls in one behaviour (caps the counter)
MaxOnlineCalls == 4
\* number of loadPlayer calls in one behaviour
MaxLoadCalls == 2
\* account ids are 1..MaxAccountId
MaxAccountId == 2
\* deletion markers of characters are 0..MaxDeletion (0 = not deleted)
MaxDeletion == 1

VARIABLES
    \* ---- save transaction ----
    store,          \* the store: saver step index -> version of the rows it owns
    saveCalled,     \* the last call on the store was a savePlayer call, and it has returned
    savePlayerArg,  \* its argument: 0 = nullptr, otherwise the aggregate's version
    saveStepOk,     \* its input: saver step index -> the value that step returns
    saveCommitOk,   \* its input: the commit of the transaction scope succeeds
    saveBefore,     \* the store when it was called
    saveTxStore,    \* the store as written inside the transaction scope
    saveInvoked,    \* the saver steps it invoked, in order
    saveThrown,     \* 0, or the index of the throw statement of savePlayerGuard taken
    saveMessage,    \* the DatabaseException thrown: [label, text, player] (NoSaveError when none)
    saveCommitted,  \* the transaction scope committed
    saveResult,     \* what savePlayer returned
    \* ---- load pipeline ----
    player,         \* the aggregate: set of loader steps that have populated it
    loadCalled,     \* a loadPlayer call has returned (or unwound)
    loadCalls,      \* number of loadPlayer calls made
    loadArgs,       \* its arguments: [hasPlayer, hasResult, disable]
    loadFault,      \* <<index, kind>> of the loader step that faulted in it, <<0, "ok">> if none
    loadBefore,     \* the aggregate when it was called
    loadInvoked,    \* the loader steps it invoked, in order
    loadResult,     \* what loadPlayer returned
    loadWarn,       \* what the warning it logged names ("" when none)
    loadEscaped,    \* an exception left loadPlayer
    \* ---- online status tracker ----
    updateOnline,   \* keys of the static map updateOnline
    playersOnlineCounter, \* the up/down counter "players_online"
    playersOnlineRows,    \* players_online table of this world: guid -> number of rows
    onlineInserts,  \* number of INSERT statements issued on players_online
    onlineCalls,    \* number of updateOnlineStatus calls made
    lastOnline,     \* the last call: what it was given, what it found and issued, and
                    \* the run of consecutive logins of one identity it belongs to
    \* ---- game world authentication ----
    authCalled,     \* a gameWorldAuthentication call has returned
    authArgs,       \* what it was given: [players, characterName, id] and where it returned
    authAccountId,  \* the caller's accountId, passed by reference
    authAccountIdBefore, \* its value when the call was made
    authResult,     \* what the call returned
    \* ---- updateOnlineStatus called from two threads ----
    raceSerialized, \* the callers serialize their calls (external mutex)
    raceThreads,    \* per thread: where its call stands, its arguments, whether its
                    \* map write may overlap a map write of the other thread
    raceInsertsOf,  \* per guid: INSERT statements issued so far
    raceDeletesOf,  \* per guid: DELETE statements issued so far
    raceOverlapped, \* guids for which two logins both passed the test before
                    \* either recorded
    raceOverlapBase, \* per guid: INSERTs issued when the last such pair formed
    raceMapDamaged  \* two writes to the map have overlapped: what the container
                    \* holds is no longer the key set `updateOnline` alone (a key
                    \* may be stored twice, an entry may be lost)

saveVars == <<store, saveCalled, savePlayerArg, saveStepOk, saveCommitOk, saveBefore, saveTxStore,
              saveInvoked, saveThrown, saveMessage, saveCommitted, saveResult>>
loadVars == <<player, loadCalled, loadCalls, loadArgs, loadBefore, loadInvoked, loadFault, loadResult,
              loadWarn, loadEscaped>>
onlineVars == <<updateOnline, playersOnlineCounter, playersOnlineRows, onlineInserts, onlineCalls,
                lastOnline>>
authVars == <<authCalled, authArgs, authAccountId, authAccountIdBefore, authResult>>
raceVars == <<raceSerialized, raceThreads, raceInsertsOf, raceDeletesOf, raceOverlapped,
              raceOverlapBase, raceMapDamaged>>
vars == <<saveVars, loadVars, onlineVars, authVars, raceVars>>

(***************************************************************************)
(* Save transaction                                                        *)
(***************************************************************************)
\* number of saver calls in savePlayerGuard
NumSaveSteps == 15

\* mutant: item inventory saved before bestiary progress
SaveStepNames_swapped ==
    << "savePlayerFirst", "savePlayerStash", "savePlayerSpells", "savePlayerKills",
       "savePlayerItem", "savePlayerBestiarySystem", "savePlayerDepotItems",
       "saveRewardItems", "savePlayerInbox", "savePlayerPreyClass",
       "savePlayerTaskHuntingClass", "savePlayerForgeHistory", "savePlayerBosstiary",
       "saveDBPlayerSlotPointsOnLogout", "savePlayerStorage" >>

\* the saver calls of savePlayerGuard in source order
SaveStepNames ==
    << "savePlayerFirst", "savePlayerStash", "savePlayerSpells", "savePlayerKills",
       "savePlayerBestiarySystem", "savePlayerItem", "savePlayerDepotItems",
       "saveRewardItems", "savePlayerInbox", "savePlayerPreyClass",
       "savePlayerTaskHuntingClass", "savePlayerForgeHistory", "savePlayerBosstiary",
       "saveDBPlayerSlotPointsOnLogout", "savePlayerStorage" >>

\* the bracketed label at the head of the DatabaseException message of each throw
\* statement of savePlayerGuard (the first one is built from __FUNCTION__)
SaveErrorLabels ==
    << "savePlayerGuard", "IOLoginDataSave::savePlayerFirst",
       "IOLoginDataSave::savePlayerSpells", "IOLoginDataSave::savePlayerKills",
       "IOLoginDataSave::savePlayerBestiarySystem", "IOLoginDataSave::savePlayerItem",
       "IOLoginDataSave::savePlayerDepotItems", "IOLoginDataSave::saveRewardItems",
       "IOLoginDataSave::savePlayerInbox", "IOLoginDataSave::savePlayerPreyClass",
       "IOLoginDataSave::savePlayerTaskHuntingClass",
       "IOLoginDataSave::savePlayerForgeHistory", "IOLoginDataSave::savePlayerBosstiary",
       "PlayerWheel::saveDBPlayerSlotPointsOnLogout", "IOLoginDataSave::savePlayerStorage" >>

\* what each message says could not be saved ("Failed to save player <text>: ")
SaveErrorTexts ==
    << "first", "stash", "spells", "kills", "bestiary system", "item", "depot items",
       "reward items", "inbox", "prey class", "task hunting class", "forge history",
       "bosstiary", "wheel info", "storage" >>

\* the message of the k-th throw statement for the player `version`: the label,
\* the text, and player->getName() appended at the end
SaveError(k, version) ==
    [label |-> SaveErrorLabels[k], text |-> SaveErrorTexts[k], player |-> version]

\* no exception
NoSaveError == [label |-> "", text |-> "", player |-> 0]

\* `throw DatabaseException("Player nullptr in function: " + __FUNCTION__)`
NullPlayerError == [label |-> "savePlayerGuard", text |-> "Player nullptr", player |-> 0]

\* A saver step: writes the rows of its sub-aggregate.  A step that returns
\* failure may already have written (wrote = TRUE) or not.
SaverWrite(st, k, version, ok, wrote) ==
    IF ok \/ wrote THEN [st EXCEPT ![k] = version] ELSE st

\* mutant: a failing saver step is not noticed
SaveStepThrows_unchecked(ok) == FALSE

\* `if (!IOLoginDataSave::saveX(player)) { throw DatabaseException(...); }`
SaveStepThrows(ok) == ~ok

\* savePlayerGuard from its k-th saver call on, with the transaction's view of
\* the store st and the steps invoked so far
RECURSIVE savePlayerGuardFrom(_, _, _, _, _, _)
savePlayerGuardFrom(k, version, stepOk, wrote, st, inv) ==
    IF k > NumSaveSteps
    THEN [ret |-> TRUE, thrown |-> 0, message |-> NoSaveError, store |-> st,
          invoked |-> inv]
    ELSE LET st2  == SaverWrite(st, k, version, stepOk[k], wrote)
             inv2 == Append(inv, SaveStepNames[k])
         IN  IF SaveStepThrows(stepOk[k])
             THEN [ret |-> FALSE, thrown |-> k, message |-> SaveError(k, version),
                   store |-> st2, invoked |-> inv2]
             ELSE savePlayerGuardFrom(k + 1, version, stepOk, wrote, st2, inv2)

\* mutant: the `if (!player)` guard is missing
savePlayerGuard_noNullCheck(version, stepOk, wrote, st) ==
    savePlayerGuardFrom(1, version, stepOk, wrote, st, << >>)

\* savePlayerGuard(player): thrown = -1 is the nullptr throw
savePlayerGuard(version, stepOk, wrote, st) ==
    IF version = 0
    THEN [ret |-> FALSE, thrown |-> -1, message |-> NullPlayerError,
          store |-> st, invoked |-> << >>]
    ELSE savePlayerGuardFrom(1, version, stepOk, wrote, st, << >>)

\* DBTransaction::executeWithinTransaction: the transaction scope.  The writes
\* of the callable become durable together on commit, or not at all: a
\* DatabaseException leaving the callable rolls back, and so does a failed commit.
executeWithinTransaction(before, guard, commitOk) ==
    IF guard.thrown # 0
    THEN [success |-> FALSE, committed |-> FALSE, store |-> before]
    ELSE IF ~commitOk
         THEN [success |-> FALSE, committed |-> FALSE, store |-> before]
         ELSE [success |-> guard.ret, committed |-> TRUE, store |-> guard.store]

\* the saver outcomes enumerated: no step fails (first = 0), or step `first` is
\* the first to fail and the steps after it would all succeed or all fail too
SaveStepOutcomes ==
    { [k \in 1..NumSaveSteps |->
          IF first = 0 \/ k < first THEN TRUE ELSE IF k = first THEN FALSE ELSE ~later] :
        first \in 0..NumSaveSteps, later \in BOOLEAN }

\* mutant: savePlayerGuard called outside any transaction scope
savePlayerRun_noTransaction(version, stepOk, wrote, commitOk, st) ==
    LET guard == savePlayerGuard(version, stepOk, wrote, st)
    IN  [guard |-> guard, committed |-> guard.thrown = 0, store |-> guard.store,
         success |-> guard.ret]

\* mutant: savePlayer ends in `return true`
savePlayerRun_returnsTrue(version, stepOk, wrote, commitOk, st) ==
    LET guard == savePlayerGuard(version, stepOk, wrote, st)
        tx    == executeWithinTransaction(st, guard, commitOk)
    IN  [guard |-> guard, committed |-> tx.committed, store |-> tx.store,
         success |-> TRUE]

\* the body of savePlayer on the store st: savePlayerGuard run within the
\* transaction scope, `success` returned as it came back
savePlayerRun(version, stepOk, wrote, commitOk, st) ==
    LET guard == savePlayerGuard(version, stepOk, wrote, st)
        tx    == executeWithinTransaction(st, guard, commitOk)
    IN  [guard |-> guard, committed |-> tx.committed, store |-> tx.store,
         success |-> tx.success]

\* bool IOLoginData::savePlayer(std::shared_ptr<Player> player)
savePlayer(version, stepOk, wrote, commitOk) ==
    \E run \in {savePlayerRun(version, stepOk, wrote, commitOk, store)} :
        /\ store' = run.store
        /\ saveCalled' = TRUE
        /\ savePlayerArg' = version
        /\ saveStepOk' = stepOk
        /\ saveCommitOk' = commitOk
        /\ saveBefore' = store
        /\ saveTxStore' = run.guard.store
        /\ saveInvoked' = run.guard.invoked
        /\ saveThrown' = run.guard.thrown
        /\ saveMessage' = run.guard.message
        /\ saveCommitted' = run.committed
        /\ saveResult' = run.success
        /\ UNCHANGED <<loadVars, onlineVars, authVars, raceVars>>

SavePlayer ==
    \E version \in 0..MaxVersion, stepOk \in SaveStepOutcomes, wrote \in BOOLEAN,
       commitOk \in BOOLEAN :
        savePlayer(version, stepOk, wrote, commitOk)

\* the `players` row after `SET balance = balance + bankBalance`: the row
\* saver step 1 owns moves on to another content; where the WHERE clause
\* matches no row (nothing saved yet: 0) there is nothing to update
BankBalanceRow(row, bankBalance) ==
    IF row = 0 THEN 0 ELSE ((row - 1 + bankBalance) % MaxVersion) + 1

\* void IOLoginData::increaseBankBalance(uint32_t guid, uint64_t bankBalance):
\* one UPDATE on `players`, executed outside any transaction scope; guidMatches
\* says whether guid is the player whose rows the store holds
increaseBankBalance(guidMatches, bankBalance, queryOk) ==
    /\ store' = IF guidMatches /\ queryOk
                THEN [store EXCEPT ![1] = BankBalanceRow(@, bankBalance)]
                ELSE store
    /\ saveCalled' = FALSE
    /\ savePlayerArg' = 0
    /\ saveStepOk' = [k \in 1..NumSaveSteps |-> TRUE]
    /\ saveCommitOk' = TRUE
    /\ saveBefore' = store
    /\ saveTxStore' = store
    /\ saveInvoked' = << >>
    /\ saveThrown' = 0
    /\ saveMessage' = NoSaveError
    /\ saveCommitted' = FALSE
    /\ saveResult' = FALSE
    /\ UNCHANGED <<loadVars, onlineVars, authVars, raceVars>>

IncreaseBankBalance ==
    \E guidMatches \in BOOLEAN, bankBalance \in 0..MaxVersion, queryOk \in BOOLEAN :
        increaseBankBalance(guidMatches, bankBalance, queryOk)

(***************************************************************************)
(* Load pipeline                                                           *)
(***************************************************************************)
\* number of loader calls in loadPlayer, and of those before the
\* `if (disableIrrelevantInfo) return true;`
NumLoadSteps == 25
NumPreloadSteps == 21

\* mutant: store inbox loaded before the inventory items
LoadStepNames_swapped ==
    << "loadPlayerFirst", "loadPlayerExperience", "loadPlayerBlessings",
       "loadPlayerConditions", "loadPlayerDefaultOutfit", "loadPlayerSkullSystem",
       "loadPlayerSkill", "loadPlayerKills", "loadPlayerGuild", "loadPlayerStashItems",
       "loadPlayerBestiaryCharms", "loadPlayerStoreInbox", "loadPlayerInventoryItems",
       "loadPlayerDepotItems", "loadRewardItems", "loadPlayerInboxItems",
       "loadPlayerStorageMap", "loadPlayerVip", "loadPlayerPreyClass",
       "loadPlayerTaskHuntingClass", "loadPlayerInstantSpellList",
       "loadPlayerForgeHistory", "loadPlayerBosstiary", "loadPlayerInitializeSystem",
       "loadPlayerUpdateSystem" >>

\* the loader calls of loadPlayer in source order
LoadStepNames ==
    << "loadPlayerFirst", "loadPlayerExperience", "loadPlayerBlessings",
       "loadPlayerConditions", "loadPlayerDefaultOutfit", "loadPlayerSkullSystem",
       "loadPlayerSkill", "loadPlayerKills", "loadPlayerGuild", "loadPlayerStashItems",
       "loadPlayerBestiaryCharms", "loadPlayerInventoryItems", "loadPlayerStoreInbox",
       "loadPlayerDepotItems", "loadRewardItems", "loadPlayerInboxItems",
       "loadPlayerStorageMap", "loadPlayerVip", "loadPlayerPreyClass",
       "loadPlayerTaskHuntingClass", "loadPlayerInstantSpellList",
       "loadPlayerForgeHistory", "loadPlayerBosstiary", "loadPlayerInitializeSystem",
       "loadPlayerUpdateSystem" >>

\* What a loader step can do: populate its sub-aggregate and return success
\* ("ok"), return failure ("failed"), or throw (std::system_error, or another
\* std::exception).
LoaderFaults == {"failed", "system_error", "exception"}

\* the outcome of the k-th loader step of a call in which step faultStep
\* (0 = none) faults with faultKind
LoaderOutcome(k, faultStep, faultKind) ==
    IF k = faultStep THEN faultKind ELSE "ok"

\* a loader step populates the aggregate only when it succeeds
LoaderApply(agg, k, outcome) ==
    IF outcome = "ok" THEN agg \cup {LoadStepNames[k]} ELSE agg

\* Each loader call is an expression statement `IOLoginDataLoad::loadX(...);`:
\* whatever it returns is discarded, only an exception leaves the sequence.
LoadStepUnwinds(outcome) == outcome \in {"system_error", "exception"}

\* mutant: the preload switch is not looked at
LastLoadStep_ignoresMode(disableIrrelevantInfo) == NumLoadSteps

\* `if (disableIrrelevantInfo) { return true; }` after the instant spell list
LastLoadStep(disableIrrelevantInfo) ==
    IF disableIrrelevantInfo THEN NumPreloadSteps ELSE NumLoadSteps

\* the try block of loadPlayer from its k-th loader call on
RECURSIVE loadPlayerFrom(_, _, _, _, _, _)
loadPlayerFrom(k, last, faultStep, faultKind, agg, inv) ==
    IF k > last
    THEN [thrown |-> "none", player |-> agg, invoked |-> inv]
    ELSE LET outcome == LoaderOutcome(k, faultStep, faultKind)
             agg2    == LoaderApply(agg, k, outcome)
             inv2    == Append(inv, LoadStepNames[k])
         IN  IF LoadStepUnwinds(outcome)
             THEN [thrown |-> outcome, player |-> agg2, invoked |-> inv2]
             ELSE loadPlayerFrom(k + 1, last, faultStep, faultKind, agg2, inv2)

\* the catch clauses of loadPlayer: std::system_error and std::exception are
\* both caught, logged and turned into `return false`
LoadPlayerCaught(thrown) == thrown \in {"system_error", "exception"}

\* mutant: the std::system_error clause ends in `return true`
LoadCatchReturn_systemErrorTrue(thrown) == thrown = "system_error"

\* what a catch clause of loadPlayer returns: `return false` in both
LoadCatchReturn(thrown) == FALSE

\* mutant: the guard looks at the result handle only
LoadNullCheck_resultOnly(hasPlayer, hasResult) ==
    IF ~hasResult THEN "Result" ELSE ""

\* `if (!result || !player)`: "" when the guard passes, otherwise nullptrType,
\* the handle the warning names: `!result ? "Result" : "Player"`
LoadNullCheck(hasPlayer, hasResult) ==
    IF ~hasResult \/ ~hasPlayer
    THEN (IF ~hasResult THEN "Result" ELSE "Player")
    ELSE ""

\* the body of loadPlayer on the aggregate agg; `fault` is the faulting step
\* the call ran into (<<0, "ok">> when it ran into none)
loadPlayerRun(hasPlayer, hasResult, disableIrrelevantInfo, faultStep, faultKind, agg) ==
    LET nullptrType == LoadNullCheck(hasPlayer, hasResult)
        try == loadPlayerFrom(1, LastLoadStep(disableIrrelevantInfo), faultStep,
                              faultKind, agg, << >>)
        met == IF faultStep \in 1..Len(try.invoked)
               THEN <<faultStep, faultKind>> ELSE <<0, "ok">>
    IN  IF nullptrType # ""
        THEN [result |-> FALSE, warn |-> nullptrType, escaped |-> FALSE,
              player |-> agg, invoked |-> << >>, fault |-> <<0, "ok">>]
        ELSE IF try.thrown = "none"
             THEN [result |-> TRUE, warn |-> "", escaped |-> FALSE,
                   player |-> try.player, invoked |-> try.invoked, fault |-> met]
             ELSE [result |-> LoadCatchReturn(try.thrown),
                   warn |-> "Error while load player",
                   escaped |-> ~LoadPlayerCaught(try.thrown),
                   player |-> try.player, invoked |-> try.invoked, fault |-> met]

\* bool IOLoginData::loadPlayer(player, result, disableIrrelevantInfo), on the
\* aggregate as earlier loads left it
loadPlayer(hasPlayer, hasResult, disableIrrelevantInfo, faultStep, faultKind) ==
    /\ loadCalls < MaxLoadCalls
    /\ \E run \in {loadPlayerRun(hasPlayer, hasResult, disableIrrelevantInfo, faultStep,
                                  faultKind, player)} :
        /\ loadCalls' = loadCalls + 1
        /\ player' = run.player
        /\ loadCalled' = TRUE
        /\ loadArgs' = [hasPlayer |-> hasPlayer, hasResult |-> hasResult,
                        disable |-> disableIrrelevantInfo]
        /\ loadBefore' = player
        /\ loadInvoked' = run.invoked
        /\ loadFault' = run.fault
        /\ loadResult' = run.result
        /\ loadWarn' = run.warn
        /\ loadEscaped' = run.escaped
        /\ UNCHANGED <<saveVars, onlineVars, authVars, raceVars>>

\* the faults enumerated: none, or one step faulting in one of the three ways
LoadFaults ==
    {<<0, "ok">>} \cup ((1..NumLoadSteps) \X LoaderFaults)

\* a step can fault only in a call that is handed both handles
LoadFaultsOf(hasPlayer, hasResult) ==
    IF hasPlayer /\ hasResult THEN LoadFaults ELSE {<<0, "ok">>}

\* loadPlayerById: the result handle is what storeQuery returns for
\* `SELECT * FROM players WHERE id = .. AND world_id = ..`, absent when no row matches
LoadPlayerById ==
    \E hasPlayer \in BOOLEAN, rowExists \in BOOLEAN, disable \in BOOLEAN :
        \E fault \in LoadFaultsOf(hasPlayer, rowExists) :
            loadPlayer(hasPlayer, rowExists, disable, fault[1], fault[2])

\* loadPlayerByName: the same with `WHERE name = .. AND world_id = ..`
LoadPlayerByName ==
    \E hasPlayer \in BOOLEAN, rowExists \in BOOLEAN, disable \in BOOLEAN :
        \E fault \in LoadFaultsOf(hasPlayer, rowExists) :
            loadPlayer(hasPlayer, rowExists, disable, fault[1], fault[2])

\* a session creates the empty aggregate it will load into; nothing has been
\* loaded into it yet
NewPlayer ==
    /\ player # {}
    /\ player' = {}
    /\ loadCalled' = FALSE
    /\ UNCHANGED loadCalls
    /\ loadArgs' = [hasPlayer |-> FALSE, hasResult |-> FALSE, disable |-> FALSE]
    /\ loadBefore' = {}
    /\ loadInvoked' = << >>
    /\ loadFault' = <<0, "ok">>
    /\ loadResult' = FALSE
    /\ loadWarn' = ""
    /\ loadEscaped' = FALSE
    /\ UNCHANGED <<saveVars, onlineVars, authVars, raceVars>>

(***************************************************************************)
(* Online status tracker                                                   *)
(***************************************************************************)
\* mutant: the lookup in the map is dropped from the guard
OnlineEarlyReturn_noFind(guid, login, tracked) == guid <= 0

\* mutant: the guard does not test `guid <= 0`
OnlineEarlyReturn_noZero(guid, login, tracked) == login /\ guid \in tracked

\* `if ((login && updateOnline.find(guid) != updateOnline.end()) || guid <= 0) return;`
OnlineEarlyReturn(guid, login, tracked) ==
    (login /\ guid \in tracked) \/ guid <= 0

\* g_metrics().addUpDownCounter("players_online", +1 / -1)
OnlineCounterDelta(login) == IF login THEN 1 ELSE -1

\* mutant: the WHERE clause of the DELETE matches no row
OnlineExecuteQuery_deleteNothing(rows, guid, login, queryOk) ==
    IF ~queryOk THEN rows
    ELSE IF login THEN [rows EXCEPT ![guid] = @ + 1]
    ELSE rows

\* Database::executeQuery of the statement built for the call: the INSERT adds
\* one (guid, worldId) row, the DELETE removes every row of guid in this world;
\* a statement that fails (queryOk = FALSE) leaves the table as it was
OnlineExecuteQuery(rows, guid, login, queryOk) ==
    IF ~queryOk THEN rows
    ELSE IF login THEN [rows EXCEPT ![guid] = @ + 1]
    ELSE [rows EXCEPT ![guid] = 0]

\* void IOLoginData::updateOnlineStatus(uint32_t guid, bool login)
updateOnlineStatus(guid, login, queryOk) ==
    LET returned == OnlineEarlyReturn(guid, login, updateOnline)
        \* the call goes on a run of consecutive logins of guid
        sameRun  == login /\ lastOnline.login /\ lastOnline.guid = guid
                    /\ lastOnline.streak >= 1
        \* the call is the logout of guid right after such a run
        afterRun == ~login /\ lastOnline.login /\ lastOnline.guid = guid
                    /\ lastOnline.streak >= 1
        carry    == sameRun \/ afterRun
    IN  /\ onlineCalls < MaxOnlineCalls
        /\ onlineCalls' = onlineCalls + 1
        /\ IF returned
           THEN UNCHANGED <<updateOnline, playersOnlineCounter, playersOnlineRows,
                            onlineInserts>>
           ELSE /\ playersOnlineCounter' = playersOnlineCounter + OnlineCounterDelta(login)
                /\ updateOnline' = IF login THEN updateOnline \cup {guid}
                                   ELSE updateOnline \ {guid}
                /\ playersOnlineRows' =
                       OnlineExecuteQuery(playersOnlineRows, guid, login, queryOk)
                /\ onlineInserts' = IF login THEN onlineInserts + 1 ELSE onlineInserts
        /\ lastOnline' =
              [guid |-> guid, login |-> login,
               wasTracked |-> guid \in updateOnline,
               query |-> IF returned THEN "none" ELSE IF login THEN "insert" ELSE "delete",
               queryOk |-> returned \/ queryOk,
               allOk |-> lastOnline.allOk /\ (returned \/ queryOk),
               counterBefore |-> playersOnlineCounter,
               streak |-> IF ~login THEN 0 ELSE IF sameRun THEN lastOnline.streak + 1 ELSE 1,
               closes |-> IF afterRun THEN lastOnline.streak ELSE 0,
               startTracked |-> IF carry THEN lastOnline.startTracked
                                ELSE guid \in updateOnline,
               startCounter |-> IF carry THEN lastOnline.startCounter
                                ELSE playersOnlineCounter,
               startInserts |-> IF carry THEN lastOnline.startInserts
                                ELSE onlineInserts]
        /\ UNCHANGED <<saveVars, loadVars, authVars, raceVars>>

\* a login notification
MarkOnline ==
    \E guid \in 0..MaxGuid, queryOk \in BOOLEAN : updateOnlineStatus(guid, TRUE, queryOk)

\* a logout notification
MarkOffline ==
    \E guid \in 0..MaxGuid, queryOk \in BOOLEAN : updateOnlineStatus(guid, FALSE, queryOk)

(***************************************************************************)
(* updateOnlineStatus called from two threads                              *)
(*                                                                         *)
(* The function holds no lock.  A call is split where another thread can   *)
(* run in between: the test of the guard (line 74, a read of the static    *)
(* map), the recording (lines 81-88: counter and map write) and the        *)
(* statement (line 90, a blocking call on the database).                   *)
(***************************************************************************)
OnlineThreads == {1, 2}

OtherThread(t) == CHOOSE u \in OnlineThreads : u # t

\* a thread outside updateOnlineStatus
OnlineThreadIdle == [pc |-> "idle", guid |-> 0, login |-> FALSE, raced |-> FALSE]

\* what `updateOnline.find(guid)` of line 74 sees.  While the other thread is
\* between its test and its map write, the read can overlap that write: a
\* data race, in which the lookup finds the key or misses it whatever the map
\* holds.  The same goes for any lookup in a container that overlapping writes
\* have damaged (racing is then TRUE as well): a key erased once may still be
\* found, a key inserted may be missed
RaceMapReads(tracked, guid, racing) ==
    IF racing THEN {tracked \cup {guid}, tracked \ {guid}} ELSE {tracked}

\* the map after `updateOnline[guid] = true` (login) or `updateOnline.erase(guid)`.
\* When both threads were between test and map write at once, the two writes
\* to the flat_hash_map are a data race: the write may land, be lost, or take
\* other entries with it.  A write to a container that such writes have
\* damaged is no better defined (raced is then TRUE as well): erase may remove
\* one of two stored entries of the key and leave it found
RaceMapOutcomes(tracked, guid, login, raced) ==
    IF raced THEN SUBSET (tracked \cup {guid})
    ELSE IF login THEN {tracked \cup {guid}} ELSE {tracked \ {guid}}

\* line 74 executed by thread t
updateOnlineStatusTest(t, guid, login) ==
    LET u       == OtherThread(t)
        overlap == raceThreads[u].pc = "passed"
    IN  /\ raceThreads[t].pc = "idle"
        /\ raceSerialized => raceThreads[u].pc = "idle"
        /\ onlineCalls < MaxOnlineCalls
        /\ onlineCalls' = onlineCalls + 1
        /\ \E seen \in RaceMapReads(updateOnline, guid, overlap \/ raceMapDamaged) :
            LET returned == OnlineEarlyReturn(guid, login, seen)
                pair     == ~returned /\ overlap /\ login /\ raceThreads[u].login
                            /\ raceThreads[u].guid = guid
            IN  /\ raceThreads' =
                      IF returned THEN raceThreads
                      ELSE [raceThreads EXCEPT
                              ![t] = [pc |-> "passed", guid |-> guid, login |-> login,
                                      raced |-> overlap],
                              ![u] = [@ EXCEPT !.raced = @ \/ overlap]]
                /\ raceOverlapped' = IF pair THEN raceOverlapped \cup {guid}
                                     ELSE raceOverlapped
                /\ raceOverlapBase' = IF pair
                                      THEN [raceOverlapBase EXCEPT ![guid] = raceInsertsOf[guid]]
                                      ELSE raceOverlapBase
        /\ UNCHANGED <<updateOnline, playersOnlineCounter, playersOnlineRows,
                       onlineInserts, lastOnline, raceSerialized, raceInsertsOf,
                       raceDeletesOf, raceMapDamaged>>
        /\ UNCHANGED <<saveVars, loadVars, authVars>>

\* lines 81-84 (login) or 85-88 (logout) executed by thread t: the counter and
\* the map write
updateOnlineStatusRecord(t) ==
    LET guid  == raceThreads[t].guid
        login == raceThreads[t].login
    IN  /\ raceThreads[t].pc = "passed"
        /\ playersOnlineCounter' = playersOnlineCounter + OnlineCounterDelta(login)
        /\ updateOnline' \in RaceMapOutcomes(updateOnline, guid, login,
                                              raceThreads[t].raced \/ raceMapDamaged)
        /\ raceMapDamaged' = (raceMapDamaged \/ raceThreads[t].raced)
        /\ raceThreads' = [raceThreads EXCEPT ![t] = [@ EXCEPT !.pc = "recorded",
                                                               !.raced = FALSE]]
        /\ UNCHANGED <<playersOnlineRows, onlineInserts, onlineCalls, lastOnline,
                       raceSerialized, raceInsertsOf, raceDeletesOf, raceOverlapped,
                       raceOverlapBase>>
        /\ UNCHANGED <<saveVars, loadVars, authVars>>

\* line 90 executed by thread t: the statement built for the call
updateOnlineStatusQuery(t, queryOk) ==
    LET guid  == raceThreads[t].guid
        login == raceThreads[t].login
    IN  /\ raceThreads[t].pc = "recorded"
        /\ playersOnlineRows' = OnlineExecuteQuery(playersOnlineRows, guid, login, queryOk)
        /\ onlineInserts' = IF login THEN onlineInserts + 1 ELSE onlineInserts
        /\ raceInsertsOf' = IF login THEN [raceInsertsOf EXCEPT ![guid] = @ + 1]
                            ELSE raceInsertsOf
        /\ raceDeletesOf' = IF login THEN raceDeletesOf
                            ELSE [raceDeletesOf EXCEPT ![guid] = @ + 1]
        /\ raceThreads' = [raceThreads EXCEPT ![t] = OnlineThreadIdle]
        /\ UNCHANGED <<updateOnline, playersOnlineCounter, onlineCalls, lastOnline,
                       raceSerialized, raceOverlapped, raceOverlapBase, raceMapDamaged>>
        /\ UNCHANGED <<saveVars, loadVars, authVars>>

\* a thread enters updateOnlineStatus
OnlineTest ==
    \E t \in OnlineThreads, guid \in 0..MaxGuid, login \in BOOLEAN :
        updateOnlineStatusTest(t, guid, login)

\* a thread that passed the guard goes on
OnlineRecord == \E t \in OnlineThreads : updateOnlineStatusRecord(t)

\* a thread that recorded issues its statement and returns
OnlineQuery ==
    \E t \in OnlineThreads, queryOk \in BOOLEAN : updateOnlineStatusQuery(t, queryOk)

(***************************************************************************)
(* Game world authentication                                               *)
(***************************************************************************)
\* the character names a login can ask for
CharacterNames == {"Alice", "Bob"}

\* the player set of an account, as getAccountPlayers returns it: each
\* character name is absent from the map (NoCharacter) or mapped to the
\* deletion marker of the character
NoCharacter == -1
AccountPlayerSets == [CharacterNames -> {NoCharacter} \cup (0..MaxDeletion)]

\* `players[characterName].deletion`: operator[] of the map inserts a
\* value-initialised entry for a key it does not hold, so a name that is
\* absent reads as deletion 0
PlayersDeletionOf(players, characterName) ==
    IF players[characterName] = NoCharacter THEN 0 ELSE players[characterName]

\* mutant: the deletion marker is not looked at
CharacterUnusable_unchecked(deletion) == FALSE

\* `if (players[characterName].deletion != 0) return false;`
CharacterUnusable(deletion) == deletion # 0

\* `if (AUTH_TYPE == "session") account.authenticate() else account.authenticate(password)`
AccountAuthenticates(authType, sessionOk, passwordOk) ==
    IF authType = "session" THEN sessionOk ELSE passwordOk

\* the body of gameWorldAuthentication: what it returns, the return statement
\* it leaves by, and the caller's accountId afterwards
gameWorldAuthenticationRun(loadOk, authType, sessionOk, passwordOk, reloadOk, playersOk, players, characterName, id, accountId) ==
    IF ~loadOk THEN [result |-> FALSE, at |-> "load", accountId |-> accountId]
    ELSE IF ~AccountAuthenticates(authType, sessionOk, passwordOk)
    THEN [result |-> FALSE, at |-> "authenticate", accountId |-> accountId]
    ELSE IF ~reloadOk THEN [result |-> FALSE, at |-> "reload", accountId |-> accountId]
    ELSE IF ~playersOk THEN [result |-> FALSE, at |-> "players", accountId |-> accountId]
    ELSE IF CharacterUnusable(PlayersDeletionOf(players, characterName))
    THEN [result |-> FALSE, at |-> "deleted", accountId |-> accountId]
    ELSE [result |-> TRUE, at |-> "end", accountId |-> id]

\* bool IOLoginData::gameWorldAuthentication(accountDescriptor, password,
\*                                           characterName, accountId, oldProtocol)
gameWorldAuthentication(loadOk, authType, sessionOk, passwordOk, reloadOk, playersOk, players, characterName, id) ==
    LET run == gameWorldAuthenticationRun(loadOk, authType, sessionOk, passwordOk,
                                          reloadOk, playersOk, players, characterName,
                                          id, authAccountId)
    IN  /\ authCalled' = TRUE
        /\ authArgs' = [players |-> players, characterName |-> characterName,
                        id |-> id, at |-> run.at]
        /\ authAccountIdBefore' = authAccountId
        /\ authAccountId' = run.accountId
        /\ authResult' = run.result
        /\ UNCHANGED <<saveVars, loadVars, onlineVars, raceVars>>

GameWorldAuthentication ==
    \E loadOk \in BOOLEAN, authType \in {"session", "password"}, sessionOk \in BOOLEAN,
       passwordOk \in BOOLEAN, reloadOk \in BOOLEAN, playersOk \in BOOLEAN,
       players \in AccountPlayerSets, characterName \in CharacterNames,
       id \in 1..MaxAccountId :
        gameWorldAuthentication(loadOk, authType, sessionOk, passwordOk, reloadOk,
                                playersOk, players, characterName, id)

(***************************************************************************)
(* Initial state and specifications                                        *)
(***************************************************************************)
InitSave ==
    /\ store = [k \in 1..NumSaveSteps |-> 0]
    /\ saveCalled = FALSE
    /\ savePlayerArg = 0
    /\ saveStepOk = [k \in 1..NumSaveSteps |-> TRUE]
    /\ saveCommitOk = TRUE
    /\ saveBefore = [k \in 1..NumSaveSteps |-> 0]
    /\ saveTxStore = [k \in 1..NumSaveSteps |-> 0]
    /\ saveInvoked = << >>
    /\ saveThrown = 0
    /\ saveMessage = NoSaveError
    /\ saveCommitted = FALSE
    /\ saveResult = FALSE

InitLoad ==
    /\ player = {}
    /\ loadCalled = FALSE
    /\ loadCalls = 0
    /\ loadArgs = [hasPlayer |-> FALSE, hasResult |-> FALSE, disable |-> FALSE]
    /\ loadFault = <<0, "ok">>
    /\ loadBefore = {}
    /\ loadInvoked = << >>
    /\ loadResult = FALSE
    /\ loadWarn = ""
    /\ loadEscaped = FALSE

InitOnline ==
    /\ updateOnline = {}
    /\ playersOnlineCounter = 0
    /\ playersOnlineRows = [g \in 1..MaxGuid |-> 0]
    /\ onlineCalls = 0
    /\ onlineInserts = 0
    /\ lastOnline = [guid |-> 0, login |-> FALSE, wasTracked |-> FALSE, query |-> "none",
                     queryOk |-> TRUE, allOk |-> TRUE,
                     counterBefore |-> 0, streak |-> 0, closes |-> 0,
                     startTracked |-> FALSE, startCounter |-> 0, startInserts |-> 0]

InitAuth ==
    /\ authCalled = FALSE
    /\ authArgs = [players |-> [n \in CharacterNames |-> NoCharacter],
                   characterName |-> "Alice", id |-> 0, at |-> "load"]
    /\ authAccountId = 0
    /\ authAccountIdBefore = 0
    /\ authResult = FALSE

InitRaceIdle ==
    /\ raceThreads = [t \in OnlineThreads |-> OnlineThreadIdle]
    /\ raceInsertsOf = [g \in 1..MaxGuid |-> 0]
    /\ raceDeletesOf = [g \in 1..MaxGuid |-> 0]
    /\ raceOverlapped = {}
    /\ raceOverlapBase = [g \in 1..MaxGuid |-> 0]
    /\ raceMapDamaged = FALSE

Init == InitSave /\ InitLoad /\ InitOnline /\ InitAuth /\ InitRaceIdle
        /\ raceSerialized = TRUE

\* two threads, with and without a caller that serializes them
InitRace == InitSave /\ InitLoad /\ InitOnline /\ InitAuth /\ InitRaceIdle
            /\ raceSerialized \in BOOLEAN

NextSave == SavePlayer \/ IncreaseBankBalance
SpecSave == Init /\ [][NextSave]_vars

NextLoad == LoadPlayerById \/ LoadPlayerByName \/ NewPlayer
SpecLoad == Init /\ [][NextLoad]_vars

NextOnline == MarkOnline \/ MarkOffline
SpecOnline == Init /\ [][NextOnline]_vars

NextOnlineRace == OnlineTest \/ OnlineRecord \/ OnlineQuery
SpecOnlineRace == InitRace /\ [][NextOnlineRace]_vars

NextAuth == GameWorldAuthentication
SpecAuth == Init /\ [][NextAuth]_vars

(***************************************************************************)
(* Properties of the save transaction                                      *)
(***************************************************************************)
\* the saver order as the specification lists it: identity/base fields, stash,
\* spells, kill record, bestiary progress, item inventory, depot items, reward
\* items, inbox, prey slots, task-hunting slots, forge history, bosstiary
\* progress, wheel points, key-value storage map
DeclaredSaveOrder ==
    << "savePlayerFirst", "savePlayerStash", "savePlayerSpells", "savePlayerKills",
       "savePlayerBestiarySystem", "savePlayerItem", "savePlayerDepotItems",
       "saveRewardItems", "savePlayerInbox", "savePlayerPreyClass",
       "savePlayerTaskHuntingClass", "savePlayerForgeHistory", "savePlayerBosstiary",
       "saveDBPlayerSlotPointsOnLogout", "savePlayerStorage" >>

AllSaveStepsOk == \A k \in 1..NumSaveSteps : saveStepOk[k]

\* the saver calls of the last savePlayer call that returned failure
SaveStepsFailed == { k \in 1..Len(saveInvoked) : ~saveStepOk[k] }

\* how often the last savePlayer call invoked the saver called name
SaveInvocations(name) ==
    Cardinality({ i \in 1..Len(saveInvoked) : saveInvoked[i] = name })

\* C1 - save atomicity: when a saver step invoked by savePlayer returned
\* failure, the store after the call equals the store before the call.
SaveAtomicity ==
    (saveCalled /\ SaveStepsFailed # {}) => store = saveBefore

\* the 9th step failed after the steps before it (and itself) had written over
\* a store that held an earlier save, and none of it is left
SaveAtomicityWitness ==
    /\ saveCalled
    /\ SaveStepsFailed = {9}
    /\ saveBefore[1] # 0
    /\ \A k \in 1..9 : saveTxStore[k] # saveBefore[k]
    /\ store = saveBefore

\* C2 - the first saver step that returns failure ends the sequence: it is the
\* last step invoked, each step up to it was invoked exactly once, each step
\* after it not at all, and the steps before it all returned success.
SaveFirstFailureAborts ==
    saveCalled =>
        \A f \in 1..NumSaveSteps :
            (savePlayerArg # 0 /\ ~saveStepOk[f] /\ \A j \in 1..(f - 1) : saveStepOk[j])
            => /\ Len(saveInvoked) = f
               /\ SaveStepsFailed = {f}
               /\ \A j \in 1..NumSaveSteps :
                     SaveInvocations(DeclaredSaveOrder[j]) = IF j <= f THEN 1 ELSE 0

\* step 4 failed, the steps after it would have failed too, and none of them ran
SaveFirstFailureAbortsWitness ==
    /\ saveCalled
    /\ savePlayerArg # 0
    /\ \A j \in 1..3 : saveStepOk[j]
    /\ \A j \in 4..NumSaveSteps : ~saveStepOk[j]
    /\ Len(saveInvoked) = 4

\* C3 - savePlayer returns success only if every saver step returned success
\* and the transaction scope committed; with every step successful and the
\* commit failing it returns failure.
SaveSuccessOnlyIfCommitted ==
    saveCalled =>
        /\ saveResult => /\ savePlayerArg # 0
                         /\ AllSaveStepsOk
                         /\ Len(saveInvoked) = NumSaveSteps
                         /\ saveCommitOk /\ saveCommitted
        /\ (AllSaveStepsOk /\ ~saveCommitOk) => ~saveResult

\* every step succeeded and wrote, the commit failed, and the call failed
SaveCommitFailureWitness ==
    /\ saveCalled
    /\ savePlayerArg # 0
    /\ AllSaveStepsOk
    /\ Len(saveInvoked) = NumSaveSteps
    /\ ~saveCommitOk
    /\ ~saveResult

\* C4 - the saver steps of a call are a prefix of the declared order, and all
\* of it, each step once, when every step succeeds.
SaveOrderPreserved ==
    (saveCalled /\ savePlayerArg # 0) =>
        /\ Len(saveInvoked) <= NumSaveSteps
        /\ saveInvoked = SubSeq(DeclaredSaveOrder, 1, Len(saveInvoked))
        /\ AllSaveStepsOk => saveInvoked = DeclaredSaveOrder

\* a call in which all fifteen steps ran and the save succeeded
SaveOrderWitness ==
    /\ saveCalled
    /\ AllSaveStepsOk
    /\ saveResult
    /\ Len(saveInvoked) = NumSaveSteps
    /\ store # saveBefore

(***************************************************************************)
(* Properties of the load pipeline                                         *)
(***************************************************************************)
\* the loader order as the specification lists it
DeclaredLoadOrder ==
    << "loadPlayerFirst", "loadPlayerExperience", "loadPlayerBlessings",
       "loadPlayerConditions", "loadPlayerDefaultOutfit", "loadPlayerSkullSystem",
       "loadPlayerSkill", "loadPlayerKills", "loadPlayerGuild", "loadPlayerStashItems",
       "loadPlayerBestiaryCharms", "loadPlayerInventoryItems", "loadPlayerStoreInbox",
       "loadPlayerDepotItems", "loadRewardItems", "loadPlayerInboxItems",
       "loadPlayerStorageMap", "loadPlayerVip", "loadPlayerPreyClass",
       "loadPlayerTaskHuntingClass", "loadPlayerInstantSpellList",
       "loadPlayerForgeHistory", "loadPlayerBosstiary", "loadPlayerInitializeSystem",
       "loadPlayerUpdateSystem" >>

\* the steps that attach to the containers of the inventory tree
ContainerDependentSteps ==
    {"loadPlayerStoreInbox", "loadPlayerDepotItems", "loadRewardItems",
     "loadPlayerInboxItems"}

\* the steps a preload leaves out
FullOnlySteps ==
    {"loadPlayerForgeHistory", "loadPlayerBosstiary", "loadPlayerInitializeSystem",
     "loadPlayerUpdateSystem"}

LoadInvokedSet == { loadInvoked[i] : i \in 1..Len(loadInvoked) }

\* the last load call was handed both handles, so it went into the try block
LoadReachedSteps == loadCalled /\ loadArgs.hasPlayer /\ loadArgs.hasResult

\* C5 - a load that reaches the step sequence runs the loader steps in the
\* declared order: the base-fields step first, and the store-inbox, depot,
\* reward and inbox-items steps only after the inventory-items step.
LoadOrderPreserved ==
    LoadReachedSteps =>
        /\ Len(loadInvoked) \in 1..NumLoadSteps
        /\ loadInvoked = SubSeq(DeclaredLoadOrder, 1, Len(loadInvoked))
        /\ loadInvoked[1] = "loadPlayerFirst"
        /\ \A i \in 2..Len(loadInvoked) : loadInvoked[i] # "loadPlayerFirst"
        /\ \A i \in 1..Len(loadInvoked) :
              loadInvoked[i] \in ContainerDependentSteps
              => \E j \in 1..(i - 1) : loadInvoked[j] = "loadPlayerInventoryItems"

\* a full load that ran all twenty-five steps
LoadOrderWitness ==
    /\ LoadReachedSteps
    /\ ~loadArgs.disable
    /\ loadResult
    /\ Len(loadInvoked) = NumLoadSteps
    /\ ContainerDependentSteps \subseteq LoadInvokedSet

\* C6 - with no step failure, a preload (disableIrrelevantInfo = TRUE) invokes
\* exactly the steps of the declared order up to the instant-spell list, and
\* none of forge history, bosstiary, initialize-system, update-system; a full
\* load invokes that prefix and then those four.
LoadMinimalIsPrefixOfFull ==
    (LoadReachedSteps /\ loadFault[1] = 0) =>
        IF loadArgs.disable
        THEN /\ loadInvoked = SubSeq(DeclaredLoadOrder, 1, 21)
             /\ loadInvoked[Len(loadInvoked)] = "loadPlayerInstantSpellList"
             /\ LoadInvokedSet \cap FullOnlySteps = {}
             /\ loadResult
        ELSE /\ loadInvoked = DeclaredLoadOrder
             /\ SubSeq(loadInvoked, 1, 21) = SubSeq(DeclaredLoadOrder, 1, 21)
             /\ FullOnlySteps = { loadInvoked[i] : i \in 22..Len(loadInvoked) }
             /\ loadResult

\* a preload that ran into no fault and returned success
LoadMinimalWitness ==
    /\ LoadReachedSteps
    /\ loadArgs.disable
    /\ loadFault[1] = 0
    /\ loadResult
    /\ Len(loadInvoked) = 21

\* C7 - a loader step that signals failure aborts the pipeline: it is the last
\* step invoked, the load returns failure, and nothing propagates out.
LoadStepFailureAborts ==
    (LoadReachedSteps /\ loadFault[1] # 0) =>
        /\ Len(loadInvoked) = loadFault[1]
        /\ ~loadResult
        /\ ~loadEscaped

\* the outcome (return value, handle named in the warning) of a load whose
\* lookup found no row and whose aggregate target is present
LoadNotFoundOutcome ==
    LET run == loadPlayerRun(TRUE, FALSE, FALSE, 0, "ok", {})
    IN  <<run.result, run.warn>>

LoadHandleMissing == loadCalled /\ (~loadArgs.hasResult \/ ~loadArgs.hasPlayer)

\* C8 as stated - a load without result handle fails as NotFound, a load with
\* neither handle fails as InvalidArgument, an outcome other than NotFound;
\* either way no loader step is invoked and the aggregate is left unchanged.
LoadNullHandleKinds ==
    LoadHandleMissing =>
        /\ ~loadResult
        /\ loadInvoked = << >>
        /\ player = loadBefore
        /\ (~loadArgs.hasResult /\ loadArgs.hasPlayer)
              => <<loadResult, loadWarn>> = LoadNotFoundOutcome
        /\ (~loadArgs.hasResult /\ ~loadArgs.hasPlayer)
              => <<loadResult, loadWarn>> # LoadNotFoundOutcome

\* C8 amended - a load without result handle returns false and warns of the
\* missing Result, whether or not the aggregate target is missing too; a load
\* with a result handle and no aggregate target returns false and warns of the
\* missing Player; either way no loader step is invoked, nothing propagates and
\* the aggregate is left unchanged.
LoadNullHandleFails ==
    LoadHandleMissing =>
        /\ ~loadResult
        /\ ~loadEscaped
        /\ loadInvoked = << >>
        /\ player = loadBefore
        /\ loadWarn = IF ~loadArgs.hasResult THEN "Result" ELSE "Player"

\* a lookup that found no row, for a session whose aggregate is populated
LoadNullHandleWitness ==
    /\ loadCalled
    /\ ~loadArgs.hasResult
    /\ loadArgs.hasPlayer
    /\ ~loadResult
    /\ player # {}
    /\ player = loadBefore

(***************************************************************************)
(* Properties of the online status tracker                                 *)
(***************************************************************************)
\* the step is a call updateOnlineStatus(guid, login)
OnlineCallOf(guid, login) ==
    /\ onlineCalls' = onlineCalls + 1
    /\ lastOnline'.guid = guid
    /\ lastOnline'.login = login

OnlineUnchanged ==
    UNCHANGED <<updateOnline, playersOnlineCounter, playersOnlineRows, onlineInserts>>

\* C9 - markOnline is idempotent: a login call for an identity that is tracked
\* changes neither the tracked set, the counter nor the presence rows and
\* issues no statement, so after a run of n >= 1 consecutive login calls for
\* one valid identity that began untracked the counter is up by exactly one
\* and exactly one INSERT has been issued.
MarkOnlineIdempotent ==
    [][ /\ \A g \in 1..MaxGuid :
              (OnlineCallOf(g, TRUE) /\ g \in updateOnline)
              => (OnlineUnchanged /\ lastOnline'.query = "none")
        /\ (lastOnline'.streak >= 1 /\ lastOnline'.guid # 0 /\ ~lastOnline'.startTracked)
              => /\ playersOnlineCounter' = lastOnline'.startCounter + 1
                 /\ onlineInserts' = lastOnline'.startInserts + 1
                 /\ lastOnline'.guid \in updateOnline'
      ]_vars

\* a second consecutive login of an identity that began untracked
MarkOnlineTwiceWitness ==
    /\ lastOnline.streak >= 2
    /\ lastOnline.guid # 0
    /\ ~lastOnline.startTracked
    /\ lastOnline.wasTracked
    /\ playersOnlineCounter = lastOnline.startCounter + 1

\* C10 - a logout call for a valid identity that is not tracked changes
\* neither the counter, the tracked set nor the presence rows.
MarkOfflineUntrackedNoOp ==
    [][ \A g \in 1..MaxGuid :
            (OnlineCallOf(g, FALSE) /\ g \notin updateOnline)
            => UNCHANGED <<updateOnline, playersOnlineCounter, playersOnlineRows>>
      ]_vars

\* the last call was the logout of a valid identity right after a run of
\* n >= 1 consecutive logins of it that began with the identity untracked
LogoutAfterLogins ==
    /\ lastOnline.closes >= 1
    /\ lastOnline.guid # 0
    /\ ~lastOnline.startTracked

\* C11 - n >= 1 markOnline(i) and then one markOffline(i), from i
\* untracked, leave the counter at its starting value, i untracked and no
\* presence row of i.
LoginsThenLogoutNetZero ==
    LogoutAfterLogins =>
        /\ playersOnlineCounter = lastOnline.startCounter
        /\ lastOnline.guid \notin updateOnline
        /\ playersOnlineRows[lastOnline.guid] = 0

\* C17 - after any sequence of calls the counter equals the number of tracked
\* identities.
CounterEqualsTracked ==
    playersOnlineCounter = Cardinality(updateOnline)

\* the identities with a presence row in this world
OnlineRowGuids == { g \in 1..MaxGuid : playersOnlineRows[g] > 0 }

\* C18 - while every statement issued has succeeded, the identities with a
\* presence row are the tracked ones, with one row each; a login whose INSERT
\* fails still records the identity as tracked, without adding a row.
RowsMatchTrackedWhenWritesSucceed ==
    /\ lastOnline.allOk =>
          /\ OnlineRowGuids = updateOnline
          /\ \A g \in 1..MaxGuid : playersOnlineRows[g] <= 1
    /\ (lastOnline.query = "insert" /\ ~lastOnline.queryOk) =>
          /\ lastOnline.guid \in updateOnline
          /\ ~lastOnline.allOk

\* logins and a logout, all statements successful, one identity left online
RowsMatchTrackedWitness ==
    /\ lastOnline.allOk
    /\ onlineCalls >= 3
    /\ lastOnline.query = "delete"
    /\ lastOnline.wasTracked
    /\ updateOnline # {}
    /\ OnlineRowGuids = updateOnline

\* C19 - updateOnlineStatus(0, login) changes nothing and issues no statement,
\* for a login and for a logout.
InvalidGuidNoOp ==
    [][ \A login \in BOOLEAN :
            OnlineCallOf(0, login)
            => (OnlineUnchanged /\ lastOnline'.query = "none")
      ]_vars

\* a logout of identity 0 while identities are online
InvalidGuidWitness ==
    /\ onlineCalls >= 2
    /\ lastOnline.guid = 0
    /\ ~lastOnline.login
    /\ lastOnline.query = "none"
    /\ updateOnline # {}
    /\ playersOnlineCounter = lastOnline.counterBefore

(***************************************************************************)
(* Properties of the errors of the save transaction                        *)
(***************************************************************************)
\* the qualified name of each saver step, in the declared order
DeclaredSaveLabels ==
    << "IOLoginDataSave::savePlayerFirst", "IOLoginDataSave::savePlayerStash",
       "IOLoginDataSave::savePlayerSpells", "IOLoginDataSave::savePlayerKills",
       "IOLoginDataSave::savePlayerBestiarySystem", "IOLoginDataSave::savePlayerItem",
       "IOLoginDataSave::savePlayerDepotItems", "IOLoginDataSave::saveRewardItems",
       "IOLoginDataSave::savePlayerInbox", "IOLoginDataSave::savePlayerPreyClass",
       "IOLoginDataSave::savePlayerTaskHuntingClass",
       "IOLoginDataSave::savePlayerForgeHistory", "IOLoginDataSave::savePlayerBosstiary",
       "PlayerWheel::saveDBPlayerSlotPointsOnLogout", "IOLoginDataSave::savePlayerStorage" >>

\* what each saver step saves, as an error text puts it
DeclaredSaveTexts ==
    << "first", "stash", "spells", "kills", "bestiary system", "item", "depot items",
       "reward items", "inbox", "prey class", "task hunting class", "forge history",
       "bosstiary", "wheel info", "storage" >>

\* the saver steps an error points at, by its label or by its text
SaveStepsNamedBy(error) ==
    { k \in 1..NumSaveSteps :
        DeclaredSaveLabels[k] = error.label \/ DeclaredSaveTexts[k] = error.text }

\* C12 - the error raised when a saver step fails names that step and no
\* other, and carries the player's name.
SaveErrorNamesFailingStep ==
    (saveCalled /\ saveThrown \in 1..NumSaveSteps) =>
        /\ SaveStepsNamedBy(saveMessage) = {saveThrown}
        /\ saveMessage.player = savePlayerArg

\* C13 - savePlayer(nullptr) reports failure with the null-player error,
\* invokes no saver step and leaves the store unchanged.
SaveNullPlayerFails ==
    (saveCalled /\ savePlayerArg = 0) =>
        /\ ~saveResult
        /\ ~saveCommitted
        /\ saveThrown = -1
        /\ saveMessage.text = "Player nullptr"
        /\ saveInvoked = << >>
        /\ saveTxStore = saveBefore
        /\ store = saveBefore

\* savePlayer(nullptr) on a store that holds an earlier save
SaveNullPlayerWitness ==
    /\ saveCalled
    /\ savePlayerArg = 0
    /\ ~saveResult
    /\ saveBefore[1] # 0
    /\ store = saveBefore

(***************************************************************************)
(* Properties of the failures of the load pipeline                         *)
(***************************************************************************)
\* the last load failed on a loader step: the step faulted and the load
\* returned failure
LoadFailedOnStep ==
    LoadReachedSteps /\ loadFault[1] # 0 /\ ~loadResult

\* C14 as stated - a load that fails on a loader step yields a result other
\* than that of a load that fails because no base row exists.
LoadFailureKindsDiffer ==
    LoadFailedOnStep => loadResult # LoadNotFoundOutcome[1]

\* C14 amended - a load that fails because a loader step threw returns the
\* same value, false, as a load that fails because no base row exists; the
\* two differ only in the warning logged.
LoadFailuresDifferInWarningOnly ==
    /\ LoadFailedOnStep =>
          /\ loadFault[2] \in {"system_error", "exception"}
          /\ loadResult = LoadNotFoundOutcome[1]
          /\ loadWarn # LoadNotFoundOutcome[2]
    /\ (LoadReachedSteps /\ loadFault[2] \in {"system_error", "exception"}) =>
          /\ loadResult = LoadNotFoundOutcome[1]
          /\ loadWarn = "Error while load player"
    /\ (loadCalled /\ ~loadArgs.hasResult /\ loadArgs.hasPlayer) =>
          <<loadResult, loadWarn>> = <<FALSE, "Result">>

\* a load in which the inventory step threw std::system_error
LoadStepThrewWitness ==
    /\ LoadReachedSteps
    /\ loadFault = <<12, "system_error">>
    /\ ~loadResult
    /\ loadWarn = "Error while load player"
    /\ Len(loadInvoked) = 12

(***************************************************************************)
(* Properties of game world authentication                                 *)
(***************************************************************************)
\* the requested name is a character of the account
AuthNameIsMember == authArgs.players[authArgs.characterName] # NoCharacter

\* C15 - authentication fails whenever the requested character has a non-zero
\* deletion marker in the account's player set, also when the account loaded
\* and the credential authenticated.
AuthFailsForDeletedCharacter ==
    (authCalled /\ AuthNameIsMember /\ authArgs.players[authArgs.characterName] # 0)
        => (~authResult /\ authArgs.at # "end")

\* the account loaded, the credential authenticated, the player set was
\* resolved, and the call failed on the deletion marker
AuthDeletedWitness ==
    /\ authCalled
    /\ authArgs.at = "deleted"
    /\ AuthNameIsMember
    /\ authArgs.players[authArgs.characterName] # 0
    /\ ~authResult

\* C20 - authentication succeeds only for a name that is a character of the
\* account and is not deleted, and accountId is written only on success.
AuthOnlyForMembers ==
    authCalled =>
        /\ authResult => /\ AuthNameIsMember
                         /\ authArgs.players[authArgs.characterName] = 0
        /\ ~authResult => authAccountId = authAccountIdBefore

(***************************************************************************)
(* Properties of updateOnlineStatus under two threads                      *)
(***************************************************************************)
\* no call is in progress
OnlineThreadsIdle == \A t \in OnlineThreads : raceThreads[t].pc = "idle"

\* INSERTs less DELETEs issued for the identities 1..n
RECURSIVE OnlineNetStatements(_)
OnlineNetStatements(n) ==
    IF n = 0 THEN 0
    ELSE raceInsertsOf[n] - raceDeletesOf[n] + OnlineNetStatements(n - 1)

\* C16 - markOnline needs external synchronization to stay idempotent.  With
\* serialized calls no two logins of an identity both pass the test, and an
\* identity is never inserted twice without a DELETE in between; when two
\* logins of one identity both pass the test before either records, both add
\* to the counter and both issue the INSERT.
OnlineNeedsSerialization ==
    /\ raceSerialized =>
          /\ raceOverlapped = {}
          /\ ~raceMapDamaged
          /\ \A g \in 1..MaxGuid : raceInsertsOf[g] <= raceDeletesOf[g] + 1
    /\ OnlineThreadsIdle => playersOnlineCounter = OnlineNetStatements(MaxGuid)
    /\ \A g \in raceOverlapped :
          OnlineThreadsIdle => raceInsertsOf[g] >= raceOverlapBase[g] + 2

\* two unserialized logins of one identity interleaved and both completed:
\* counter 2, two INSERTs, two rows
OnlineRaceWitness ==
    /\ ~raceSerialized
    /\ OnlineThreadsIdle
    /\ \E g \in raceOverlapped : /\ raceInsertsOf[g] = 2
                                 /\ raceDeletesOf[g] = 0
                                 /\ playersOnlineRows[g] = 2
                                 /\ onlineCalls = 2
                                 /\ playersOnlineCounter = 2

====
